---- MODULE Spec2Model ----
(***************************************************************************)
(* Round-based federated training with federated averaging, as driven by   *)
(* the notebook "Federated learning with websockets and federated          *)
(* averaging": the function train() (one epoch: rounds of local training   *)
(* on every worker followed by utils.federated_avg) and the epoch loop     *)
(* that calls train() and then rwc.test().                                 *)
(*                                                                         *)
(* The helpers of run_websocket_client (rwc.get_next_batches,              *)
(* rwc.train_on_batches, rwc.test) and utils.federated_avg are not part of *)
(* the notebook; they are modelled from the specification's contracts      *)
(* (BatchCursor, local training, Aggregator, centralized evaluation).      *)
(***************************************************************************)
EXTENDS Integers, Sequences, FiniteSets, TLC

(* ------------------------------ bounds -------------------------------- *)

\* largest number of batches in one worker's partition
MaxPart == 3

\* largest federate_after_n_batches (batches per round)
MaxN == 2

\* largest number of epochs
MaxEpochs == 2

\* largest integer parameter value drawn for the inputs of federated_avg
MaxVal == 2

(* --------------------------- configuration ---------------------------- *)

\* the websocket client workers the notebook instantiates
AllWorkers == {"alice", "bob", "charlie"}

\* names of the model's parameters (every ParameterSet maps these to values)
ParamNames == {"weight", "bias"}

(* ------------------------ rational arithmetic ------------------------- *)
\* Parameter values are exact non-negative rationals <<num, den>>, den > 0,
\* kept in lowest terms, so that a mean of integers is represented exactly.

RECURSIVE GCD(_, _)
GCD(a, b) == IF b = 0 THEN a ELSE GCD(b, a % b)

Norm(n, d) == LET g == GCD(n, d) IN <<n \div g, d \div g>>

Rat(n) == <<n, 1>>

\* x + y; a and b are the operands, evaluated once each
RatAdd(x, y) ==
    CHOOSE r \in {Norm(a[1] * b[2] + b[1] * a[2], a[2] * b[2]) :
                      a \in {x}, b \in {y}} : TRUE

\* x / k; a is the operand, evaluated once
RatDivInt(x, k) ==
    CHOOSE r \in {Norm(a[1], a[2] * k) : a \in {x}} : TRUE

(* --------------------------- small helpers ---------------------------- *)

Range(s) == {s[i] : i \in DOMAIN s}

Min(a, b) == IF a < b THEN a ELSE b

\* the empty dict {}
EmptyDict == <<>>

\* d[k] = v of a Python dict
DictSet(d, k, v) == [x \in (DOMAIN d) \cup {k} |-> IF x = k THEN v ELSE d[x]]

\* sequences over S without repetition, of every length: the possible
\* ordered worker lists
RECURSIVE Orderings(_)
Orderings(S) ==
    IF S = {} THEN {<<>>}
    ELSE UNION {{<<x>> \o t : t \in Orderings(S \ {x})} : x \in S}

(* ------------------------------- state -------------------------------- *)

VARIABLES
    workerIds,            \* run configuration: ordered worker ids
    partition,            \* per worker, its sequence of batches
    nr_batches,           \* args.federate_after_n_batches
    epochs,               \* args.epochs
    pc,                   \* position of the driver in the notebook's code
    epoch,                \* loop variable of the epoch loop
    globalModel,          \* the notebook-level variable `model`
    model,                \* train()'s local variable `model`
    models,               \* train()'s dict worker -> locally trained model
    loss_values,          \* train()'s dict worker -> loss trace
    cursor,               \* per worker, batches consumed from its iterator
    batches,              \* train()'s dict worker -> batches of this round
    counter,              \* train()'s counter
    data_for_all_workers, \* train()'s flag
    idx,                  \* position of `for worker in batches`
    inflight,             \* outstanding train_on_batches calls
    error,                \* exception that ended the run, or NoError
    round,                \* history: number of the round within the epoch
    aggRounds,            \* history: rounds aggregated in this epoch
    version,              \* history: number of aggregations of the run
    lastAgg,              \* history: output of the last aggregation
    roundModel,           \* history: `model` when the round started
    dispatched,           \* history: workers trained in this round
    origin,               \* history: where each entry of models comes from
    failures,             \* history: the training calls that failed
    delivered,            \* history: per worker, the batches fetched in this epoch
    evals                 \* history: the evaluations performed by rwc.test

vars == <<workerIds, partition, nr_batches, epochs, pc, epoch, globalModel,
          model, models, loss_values, cursor, batches, counter,
          data_for_all_workers, idx, inflight, error, round, aggRounds,
          version, lastAgg, roundModel, dispatched, origin, failures,
          delivered, evals>>

config == <<workerIds, partition, nr_batches, epochs>>

history == <<round, aggRounds, version, lastAgg, roundModel, dispatched,
             origin, failures, delivered, evals>>

NoError == [kind |-> "none", worker |-> "", round |-> 0, epoch |-> 0]

(* ------------------- collaborators of the notebook -------------------- *)

\* rwc.Net(): the initial weights of the model
InitialModel == [p \in ParamNames |-> Rat(0)]

\* per-worker constant that makes the workers' local updates differ
WorkerSeed(w) == CASE w = "alice" -> 1 [] w = "bob" -> 2 [] OTHER -> 4

\* the dataset partition of worker w: size batches, in iteration order
MakePartition(w, size) == [i \in 1..size |-> [owner |-> w, index |-> i]]

\* BatchCursor.nextBatches(count): the next count batches of the partition
\* from position pos on, fewer when the partition ends, none when exhausted
NextBatches(part, pos, count) == SubSeq(part, pos + 1, Min(pos + count, Len(part)))

\* position of the cursor after nextBatches(count)
CursorAfter(part, pos, count) == Min(pos + count, Len(part))

\* rwc.get_next_batches(federated_train_loader, nr_batches): one entry for
\* every worker of the loader, possibly an empty list
get_next_batches(cur, count) ==
    [w \in Range(workerIds) |-> NextBatches(partition[w], cur[w], count)]

\* the loader's iterators after get_next_batches
AdvanceCursors(cur, count) ==
    [w \in Range(workerIds) |-> CursorAfter(partition[w], cur[w], count)]

\* iter(federated_train_loader): fresh iterators
FreshCursors == [w \in Range(workerIds) |-> 0]

\* one optimization step on batch b: what it adds to parameter p
StepUpdate(p, b) == IF p = "weight" THEN b.index ELSE WorkerSeed(b.owner)

\* what one step per batch, in sequence, adds to parameter p: the steps on
\* the first half of the batches, then the steps on the second half
RECURSIVE TotalUpdate(_, _)
TotalUpdate(p, bs) ==
    IF Len(bs) = 0 THEN 0
    ELSE IF Len(bs) = 1 THEN StepUpdate(p, bs[1])
    ELSE LET h == Len(bs) \div 2
         IN  TotalUpdate(p, SubSeq(bs, 1, h)) + TotalUpdate(p, SubSeq(bs, h + 1, Len(bs)))

\* the local model after one optimization step per batch
TrainedModel(ps, bs) ==
    [p \in DOMAIN ps |-> RatAdd(ps[p], Rat(TotalUpdate(p, bs)))]

\* rwc.train_on_batches(worker, batches, model, device, lr): trains a copy of
\* model, returns the copy and one loss value per batch
train_on_batches(w, bs, m) ==
    [model |-> TrainedModel(m, bs), loss |-> [i \in 1..Len(bs) |-> bs[i].index]]

\* sum of parameter p over the models of the workers in S
RECURSIVE SumParam(_, _, _)
SumParam(ms, S, p) ==
    IF S = {} THEN Rat(0)
    ELSE LET w == CHOOSE x \in S : TRUE
         IN  RatAdd(ms[w][p], SumParam(ms, S \ {w}, p))

\* all models of the mapping have the same parameter names
SameShape(ms) == \A a, b \in DOMAIN ms : DOMAIN ms[a] = DOMAIN ms[b]

\* parameter names of the mapping's models
ShapeOf(ms) == DOMAIN ms[CHOOSE w \in DOMAIN ms : TRUE]

\* federated_avg without the final scaling by 1 / nr_models
federated_avg_Sum(ms) ==
    IF DOMAIN ms = {} THEN [ok |-> FALSE, kind |-> "EmptyAggregationInput", value |-> <<>>]
    ELSE IF ~SameShape(ms) THEN [ok |-> FALSE, kind |-> "ShapeMismatch", value |-> <<>>]
    ELSE [ok |-> TRUE, kind |-> "none",
          value |-> [p \in ShapeOf(ms) |-> SumParam(ms, DOMAIN ms, p)]]

\* utils.federated_avg(models): the unweighted parameter-wise mean
federated_avg(ms) ==
    IF DOMAIN ms = {} THEN [ok |-> FALSE, kind |-> "EmptyAggregationInput", value |-> <<>>]
    ELSE IF ~SameShape(ms) THEN [ok |-> FALSE, kind |-> "ShapeMismatch", value |-> <<>>]
    ELSE [ok |-> TRUE, kind |-> "none",
          value |-> [p \in ShapeOf(ms) |->
                        RatDivInt(SumParam(ms, DOMAIN ms, p), Cardinality(DOMAIN ms))]]

(* --------------------------- initial states --------------------------- *)

\* the state before the epoch loop runs, for one run configuration
InitWith(ids, sizes, n, e) ==
    /\ workerIds = ids
    /\ partition = [w \in Range(ids) |-> MakePartition(w, sizes[w])]
    /\ nr_batches = n
    /\ epochs = e
    /\ pc = "idle"
    /\ epoch = 0
    /\ globalModel = InitialModel
    /\ model = InitialModel
    /\ models = EmptyDict
    /\ loss_values = EmptyDict
    /\ cursor = [w \in Range(ids) |-> 0]
    /\ batches = EmptyDict
    /\ counter = 0
    /\ data_for_all_workers = TRUE
    /\ idx = 1
    /\ inflight = {}
    /\ error = NoError
    /\ round = 0
    /\ aggRounds = 0
    /\ version = 0
    /\ lastAgg = InitialModel
    /\ roundModel = InitialModel
    /\ dispatched = {}
    /\ origin = EmptyDict
    /\ failures = <<>>
    /\ delivered = EmptyDict
    /\ evals = <<>>

\* the run configurations explored: every ordered non-empty list of workers,
\* every partition size and every federate_after_n_batches up to the bounds
Init ==
    \E W \in (SUBSET AllWorkers) \ {{}} :
      \E ids \in Orderings(W) :
        \E sizes \in [W -> 0..MaxPart] :
          \E n \in 0..MaxN :
            \E e \in 1..MaxEpochs :
              InitWith(ids, sizes, n, e)

(* ------------------------------ actions ------------------------------- *)

\* the worker the for loop of train() is at
CurWorker == workerIds[idx]

\* `for epoch in range(1, args.epochs + 1)`: the first iteration begins
StartRun ==
    /\ pc = "idle"
    /\ epoch' = 1
    /\ pc' = "epoch"
    /\ UNCHANGED <<config, globalModel, model, models, loss_values, cursor,
                   batches, counter, data_for_all_workers, idx, inflight,
                   error, history>>

\* train() without `iter(federated_train_loader)`: the iterators of the
\* previous epoch are used on
TrainEnter_NoIter ==
    /\ pc = "epoch"
    /\ model' = globalModel
    /\ models' = EmptyDict
    /\ loss_values' = EmptyDict
    /\ batches' = get_next_batches(cursor, nr_batches)
    /\ cursor' = AdvanceCursors(cursor, nr_batches)
    /\ counter' = 0
    /\ pc' = "while"
    /\ round' = 0
    /\ aggRounds' = 0
    /\ origin' = EmptyDict
    /\ delivered' = batches'
    /\ UNCHANGED <<config, epoch, globalModel, data_for_all_workers, idx,
                   inflight, error, version, lastAgg, roundModel, dispatched,
                   failures, evals>>

\* train() is called and runs up to its `while True`
\* train() without `counter = 0`, the counter being kept from call to call
TrainEnter_KeepCounter ==
    /\ pc = "epoch"
    /\ model' = globalModel
    /\ models' = EmptyDict
    /\ loss_values' = EmptyDict
    /\ batches' = get_next_batches(FreshCursors, nr_batches)
    /\ cursor' = AdvanceCursors(FreshCursors, nr_batches)
    /\ counter' = counter
    /\ pc' = "while"
    /\ round' = 0
    /\ aggRounds' = 0
    /\ origin' = EmptyDict
    /\ delivered' = batches'
    /\ UNCHANGED <<config, epoch, globalModel, data_for_all_workers, idx,
                   inflight, error, version, lastAgg, roundModel, dispatched,
                   failures, evals>>

TrainEnter ==
    /\ pc = "epoch"
    /\ model' = globalModel
    /\ models' = EmptyDict
    /\ loss_values' = EmptyDict
    /\ batches' = get_next_batches(FreshCursors, nr_batches)
    /\ cursor' = AdvanceCursors(FreshCursors, nr_batches)
    /\ counter' = 0
    /\ pc' = "while"
    /\ round' = 0
    /\ aggRounds' = 0
    /\ origin' = EmptyDict
    /\ delivered' = batches'
    /\ UNCHANGED <<config, epoch, globalModel, data_for_all_workers, idx,
                   inflight, error, version, lastAgg, roundModel, dispatched,
                   failures, evals>>

\* top of the while loop: a round starts
RoundStart ==
    /\ pc = "while"
    /\ data_for_all_workers' = TRUE
    /\ idx' = 1
    /\ pc' = "for"
    /\ round' = round + 1
    /\ roundModel' = model
    /\ dispatched' = {}
    /\ UNCHANGED <<config, epoch, globalModel, model, models, loss_values,
                   cursor, batches, counter, inflight, error, aggRounds,
                   version, lastAgg, origin, failures, delivered, evals>>

\* the for loop is at a worker; no training call is outstanding
AtWorker == pc = "for" /\ idx <= Len(workerIds)

\* the for loop counted as over while its last training call is outstanding
RoundComplete_NoBarrier ==
    \/ pc = "for" /\ idx > Len(workerIds)
    \/ pc = "call" /\ idx = Len(workerIds)

\* the for loop is over
RoundComplete == pc = "for" /\ idx > Len(workerIds)

\* `if len(curr_batches) == nr_batches:` only a full slice counts as data
HasData_FullOnly(w) == Len(batches[w]) = nr_batches

\* `if curr_batches:` a non-empty list is true
HasData(w) == Len(batches[w]) > 0

\* the training call is started and the loop goes on without waiting for it
DispatchWorker_NonBlocking ==
    /\ AtWorker
    /\ HasData(CurWorker)
    /\ inflight' = inflight \cup {[worker |-> CurWorker, epoch |-> epoch,
                                   round |-> round, version |-> version]}
    /\ dispatched' = dispatched \cup {CurWorker}
    /\ idx' = idx + 1
    /\ UNCHANGED <<config, pc, epoch, globalModel, model, models, loss_values,
                   cursor, batches, counter, data_for_all_workers, error,
                   round, aggRounds, version, lastAgg, roundModel, origin,
                   failures, delivered, evals>>

\* `if curr_batches:` holds: rwc.train_on_batches is called for the worker
DispatchWorker ==
    /\ AtWorker
    /\ HasData(CurWorker)
    /\ inflight' = inflight \cup {[worker |-> CurWorker, epoch |-> epoch,
                                   round |-> round, version |-> version]}
    /\ dispatched' = dispatched \cup {CurWorker}
    /\ pc' = "call"
    /\ UNCHANGED <<config, epoch, globalModel, model, models, loss_values,
                   cursor, batches, counter, data_for_all_workers, idx, error,
                   round, aggRounds, version, lastAgg, roundModel, origin,
                   failures, delivered, evals>>

\* the else branch does nothing (`pass`): the flag stays up
SkipWorker_KeepFlag ==
    /\ AtWorker
    /\ ~HasData(CurWorker)
    /\ data_for_all_workers' = data_for_all_workers
    /\ idx' = idx + 1
    /\ UNCHANGED <<config, pc, epoch, globalModel, model, models, loss_values,
                   cursor, batches, counter, inflight, error, history>>

\* `else:` the worker has no batches in this round
SkipWorker ==
    /\ AtWorker
    /\ ~HasData(CurWorker)
    /\ data_for_all_workers' = FALSE
    /\ idx' = idx + 1
    /\ UNCHANGED <<config, pc, epoch, globalModel, model, models, loss_values,
                   cursor, batches, counter, inflight, error, history>>

\* rwc.train_on_batches returns: its results are stored, the loop goes on
\* the worker trains the model it was handed, not a copy of it
TrainReturn_InPlace ==
    /\ pc = "call"
    /\ \E c \in inflight :
         LET r == train_on_batches(c.worker, batches[c.worker], model)
         IN  /\ models' = DictSet(models, c.worker, r.model)
             /\ model' = r.model
             /\ loss_values' = DictSet(loss_values, c.worker, r.loss)
             /\ origin' = DictSet(origin, c.worker,
                                  [epoch |-> c.epoch, round |-> c.round,
                                   version |-> c.version])
             /\ inflight' = inflight \ {c}
    /\ idx' = idx + 1
    /\ pc' = "for"
    /\ UNCHANGED <<config, epoch, globalModel, cursor, batches, counter,
                   data_for_all_workers, error, round, aggRounds, version,
                   lastAgg, roundModel, dispatched, failures, delivered,
                   evals>>

TrainReturn ==
    /\ pc = "call"
    /\ \E c \in inflight :
         LET r == train_on_batches(c.worker, batches[c.worker], model)
         IN  /\ models' = DictSet(models, c.worker, r.model)
             /\ loss_values' = DictSet(loss_values, c.worker, r.loss)
             /\ origin' = DictSet(origin, c.worker,
                                  [epoch |-> c.epoch, round |-> c.round,
                                   version |-> c.version])
             /\ inflight' = inflight \ {c}
    /\ idx' = idx + 1
    /\ pc' = "for"
    /\ UNCHANGED <<config, epoch, globalModel, model, cursor, batches, counter,
                   data_for_all_workers, error, round, aggRounds, version,
                   lastAgg, roundModel, dispatched, failures, delivered,
                   evals>>

\* the exception of rwc.train_on_batches is caught and the loop goes on with
\* the next worker
TrainFail_Swallowed ==
    /\ pc = "call"
    /\ \E c \in inflight :
         /\ failures' = Append(failures, c)
         /\ inflight' = inflight \ {c}
    /\ idx' = idx + 1
    /\ pc' = "for"
    /\ UNCHANGED <<config, epoch, globalModel, model, models, loss_values,
                   cursor, batches, counter, data_for_all_workers, error,
                   round, aggRounds, version, lastAgg, roundModel, dispatched,
                   origin, delivered, evals>>

\* rwc.train_on_batches raises (transport failure or timeout): nothing in
\* train() or in the epoch loop catches it, the run ends with the exception
TrainFail ==
    /\ pc = "call"
    /\ \E c \in inflight :
         /\ error' = [kind |-> "WorkerUnreachable", worker |-> c.worker,
                      round |-> c.round, epoch |-> c.epoch]
         /\ inflight' = inflight \ {c}
         /\ failures' = Append(failures, c)
    /\ pc' = "error"
    /\ UNCHANGED <<config, epoch, globalModel, model, models, loss_values,
                   cursor, batches, counter, data_for_all_workers, idx,
                   round, aggRounds, version, lastAgg, roundModel, dispatched,
                   origin, delivered, evals>>

\* the models are averaged before the flag is tested, and the average is
\* returned
RoundExhausted_AvgBeforeBreak ==
    /\ RoundComplete
    /\ ~data_for_all_workers
    /\ counter' = counter + nr_batches
    /\ globalModel' = IF federated_avg(models).ok
                      THEN federated_avg(models).value ELSE model
    /\ pc' = "test"
    /\ UNCHANGED <<config, epoch, model, models, loss_values, cursor, batches,
                   data_for_all_workers, idx, inflight, error, history>>

\* after the for loop, `if not data_for_all_workers: break`, then
\* `return model` and the epoch loop's `model = train(...)`
RoundExhausted ==
    /\ RoundComplete
    /\ ~data_for_all_workers
    /\ counter' = counter + nr_batches
    /\ globalModel' = model
    /\ pc' = "test"
    /\ UNCHANGED <<config, epoch, model, models, loss_values, cursor, batches,
                   data_for_all_workers, idx, inflight, error, history>>

\* the call with an empty dict skipped (`if models:`): the model is kept
AvgCall_SkipsEmpty ==
    IF DOMAIN models = {} THEN [ok |-> TRUE, kind |-> "none", value |-> model]
    ELSE federated_avg(models)

\* the current global model is averaged in with the workers' models
AvgCall_IncludesGlobal == federated_avg(DictSet(models, "global", model))

\* the mean weighted by the number of batches each worker trained on: a
\* worker's model is counted once per batch of its assignment
AvgCall_WeightedByBatches ==
    federated_avg([k \in UNION {{<<w, i>> : i \in 1..Len(batches[w])} :
                                    w \in DOMAIN models} |-> models[k[1]]])

\* a running average over the models in the order the workers were iterated:
\* each further model is averaged with the result so far
AvgCall_RunningAverage ==
    LET ids == SelectSeq(workerIds, LAMBDA w : w \in DOMAIN models)
        RECURSIVE Run(_)
        Run(i) ==
            IF i = 1 THEN models[ids[1]]
            ELSE LET a == Run(i - 1)
                     m == models[ids[i]]
                 IN  [p \in DOMAIN m |-> RatDivInt(RatAdd(a[p], m[p]), 2)]
    IN  IF ids = <<>> \/ ~SameShape(models) THEN federated_avg(models)
        ELSE [ok |-> TRUE, kind |-> "none", value |-> Run(Len(ids))]

\* `utils.federated_avg(models)` as train() calls it
AvgCall == federated_avg(models)

\* after the for loop, every worker had data: the models are averaged and the
\* next round's batches are fetched
RoundAggregate ==
    /\ RoundComplete
    /\ data_for_all_workers
    /\ counter' = counter + nr_batches
    /\ LET r == AvgCall
       IN  IF r.ok
           THEN /\ model' = r.value
                /\ batches' = get_next_batches(cursor, nr_batches)
                /\ cursor' = AdvanceCursors(cursor, nr_batches)
                /\ pc' = "while"
                /\ aggRounds' = aggRounds + 1
                /\ version' = version + 1
                /\ lastAgg' = r.value
                /\ delivered' = [w \in Range(workerIds) |->
                                    delivered[w] \o batches'[w]]
                /\ error' = error
           ELSE /\ error' = [kind |-> r.kind, worker |-> "", round |-> round,
                             epoch |-> epoch]
                /\ pc' = "error"
                /\ UNCHANGED <<model, batches, cursor, aggRounds, version,
                               lastAgg, delivered>>
    /\ UNCHANGED <<config, epoch, globalModel, models, loss_values,
                   data_for_all_workers, idx, inflight, round, roundModel,
                   dispatched, origin, failures, evals>>

\* the epoch loop with range(1, args.epochs + 2)
TestModel_OneMore ==
    /\ pc = "test"
    /\ evals' = Append(evals, [epoch |-> epoch, model |-> globalModel,
                               version |-> version, round |-> round])
    /\ IF epoch < epochs + 1
       THEN epoch' = epoch + 1 /\ pc' = "epoch"
       ELSE epoch' = epoch /\ pc' = "done"
    /\ UNCHANGED <<config, globalModel, model, models, loss_values, cursor,
                   batches, counter, data_for_all_workers, idx, inflight,
                   error, round, aggRounds, version, lastAgg, roundModel,
                   dispatched, origin, failures, delivered>>

\* rwc.test(model, device, test_loader), then the epoch loop goes on or ends
TestModel ==
    /\ pc = "test"
    /\ evals' = Append(evals, [epoch |-> epoch, model |-> globalModel,
                               version |-> version, round |-> round])
    /\ IF epoch < epochs
       THEN epoch' = epoch + 1 /\ pc' = "epoch"
       ELSE epoch' = epoch /\ pc' = "done"
    /\ UNCHANGED <<config, globalModel, model, models, loss_values, cursor,
                   batches, counter, data_for_all_workers, idx, inflight,
                   error, round, aggRounds, version, lastAgg, roundModel,
                   dispatched, origin, failures, delivered>>

Next ==
    \/ StartRun
    \/ TrainEnter
    \/ RoundStart
    \/ DispatchWorker
    \/ SkipWorker
    \/ TrainReturn
    \/ TrainFail
    \/ RoundExhausted
    \/ RoundAggregate
    \/ TestModel

Spec == Init /\ [][Next]_vars

\* the TrainingDriver state the code position corresponds to
DriverState ==
    CASE pc = "idle" -> "Idle"
      [] pc = "epoch" -> "EpochRunning"
      [] pc \in {"while", "for", "call"} -> "RoundRunning"
      [] pc = "test" -> "EpochDone"
      [] pc = "done" -> "Finished"
      [] OTHER -> "Failed"

\* the run without transport failures: every training call returns
NextNoFail ==
    \/ StartRun
    \/ TrainEnter
    \/ RoundStart
    \/ DispatchWorker
    \/ SkipWorker
    \/ TrainReturn
    \/ RoundExhausted
    \/ RoundAggregate
    \/ TestModel

SpecNoFail == Init /\ [][NextNoFail]_vars

(* ------------------------- claims on train() -------------------------- *)

\* some worker's assignment of the current round is empty
SomeAssignmentEmpty ==
    \E w \in Range(workerIds) : Len(batches[w]) = 0

\* the driver is inside the for loop of a round
InRound == pc \in {"for", "call"}

\* C1: in a round where at least one worker's batch assignment is empty no
\* local training is dispatched to any worker, and once the for loop is over
\* the scheduler signals "epoch complete" (the flag is down).
C1_ExhaustedRoundNotTrained ==
    (InRound /\ SomeAssignmentEmpty) =>
        /\ dispatched = {}
        /\ inflight = {}
        /\ RoundComplete => ~data_for_all_workers

\* C2: when the for loop of a round with an empty assignment is over, the
\* next step returns from train() without aggregating: the model handed to
\* the evaluation is the model the round started with, the aggregation count
\* does not move, and the epoch is done.
C2_ExhaustionKeepsModel ==
    [][(RoundComplete /\ SomeAssignmentEmpty) =>
          /\ pc' = "test"
          /\ globalModel' = roundModel
          /\ globalModel' = lastAgg
          /\ model' = model
          /\ version' = version
          /\ aggRounds' = aggRounds]_vars

\* C2 witness: an epoch ended by exhaustion after aggregated rounds, in a
\* round where one worker had no batches and another one had (and trained).
C2_Witness ==
    /\ pc = "test"
    /\ aggRounds > 0
    /\ SomeAssignmentEmpty
    /\ dispatched # {}
    /\ globalModel # InitialModel

\* C3: after a worker failure the model visible to the caller of the run (the
\* notebook's `model`) is the output of the last aggregated round.
C3_ProgressNotRolledBack ==
    (pc = "error" /\ error.kind = "WorkerUnreachable") => globalModel = lastAgg

\* C4: a failed training call ends the run at once: the step of the failure
\* changes neither train()'s model nor the caller's nor the aggregation
\* count, the run is in its error state with the failure of that worker and
\* round as its error, and no step follows (no retry, no further round).
C4_FailureAbortsRun ==
    [][/\ failures' # failures =>
            /\ model' = model
            /\ globalModel' = globalModel
            /\ version' = version
            /\ lastAgg' = lastAgg
            /\ models' = models
       /\ Len(failures') > 0 =>
            /\ pc' = "error"
            /\ Len(failures') = 1
            /\ inflight' = {}
            /\ error' = [kind |-> "WorkerUnreachable",
                         worker |-> failures'[1].worker,
                         round |-> failures'[1].round,
                         epoch |-> failures'[1].epoch]
       /\ Len(failures) > 0 => UNCHANGED vars]_vars

\* C4 witness: the run ended by a failure in a later round of an epoch, with
\* another worker of that round already trained.
C4_Witness ==
    /\ pc = "error"
    /\ Len(failures) = 1
    /\ aggRounds > 0
    /\ idx > 1

\* C5: the aggregation of a round happens only when no training call is
\* outstanding and every worker of the round has returned a model trained in
\* this round from the current model; every outstanding call belongs to the
\* current round, was given the current model version, and round N + 1 has
\* a call only once N rounds of the epoch are aggregated.
C5_RoundBarrier ==
    [][/\ version' # version =>
            /\ inflight = {}
            /\ dispatched = Range(workerIds)
            /\ \A w \in dispatched :
                 /\ w \in DOMAIN origin
                 /\ origin[w] = [epoch |-> epoch, round |-> round,
                                 version |-> version]
            /\ version' = version + 1
       /\ \A c \in inflight' :
            /\ c.epoch = epoch'
            /\ c.round = round'
            /\ c.version = version'
            /\ c.round = aggRounds' + 1]_vars

\* C5 witness: a training call of the third round is outstanding.
C5_Witness ==
    /\ pc = "call"
    /\ inflight # {}
    /\ round = 3
    /\ aggRounds = 2
    /\ Len(workerIds) > 1

\* a step of the driver that starts a training call while keeping the
\* outstanding ones
StartsAnotherCall ==
    /\ Next
    /\ inflight \subseteq inflight'
    /\ inflight' # inflight

\* C6 as stated: the trips do not block each other, so while a worker's call
\* is outstanding and a later worker of the round has batches, the driver can
\* start that worker's call.
C6_ConcurrentDispatch ==
    (pc = "call" /\ \E i \in (idx + 1)..Len(workerIds) : HasData(workerIds[i]))
        => ENABLED StartsAnotherCall

\* the workers before position i of the round that have batches
EarlierWithData(i) ==
    {workerIds[j] : j \in {k \in 1..(i - 1) : k <= Len(workerIds) /\ HasData(workerIds[k])}}

\* C6 as amended: the training calls of a round are made one at a time in
\* the order of the assignment; the driver is blocked exactly while a call is
\* outstanding; at most one call is outstanding, it is the call of the
\* worker the loop is at, it trains from the current model, and every earlier
\* worker with batches has already returned its model of this round.
C6_SequentialDispatch ==
    /\ Cardinality(inflight) <= 1
    /\ (pc = "call") <=> (inflight # {})
    /\ \A c \in inflight :
         /\ c.worker = CurWorker
         /\ c.version = version
         /\ c.round = round
         /\ \A w \in EarlierWithData(idx) :
              /\ w \in DOMAIN origin
              /\ origin[w].round = round
              /\ origin[w].epoch = epoch
    /\ InRound =>
         dispatched = EarlierWithData(idx) \cup {c.worker : c \in inflight}

\* C6 witness: the second training call of a round is outstanding, the first
\* one has returned.
C6_Witness ==
    /\ pc = "call"
    /\ Cardinality(dispatched) = 2
    /\ Cardinality(inflight) = 1
    /\ idx >= 2

(* ---------------------- the recorded configuration -------------------- *)

\* args.federate_after_n_batches of the recorded run
FederateAfterNBatches == 50

\* the notebook's worker list: workers = [alice, bob, charlie]
NotebookWorkers == <<"alice", "bob", "charlie">>

\* three workers with 400 batches each, 50 batches per round
InitEqualPartitions ==
    \E e \in 1..MaxEpochs :
        InitWith(NotebookWorkers, [w \in AllWorkers |-> 400],
                 FederateAfterNBatches, e)

SpecEqualPartitions == InitEqualPartitions /\ [][NextNoFail]_vars

\* three workers with 400, 400 and 325 batches, 50 batches per round
InitShortPartition ==
    \E e \in 1..MaxEpochs :
        InitWith(NotebookWorkers,
                 [w \in AllWorkers |-> IF w = "charlie" THEN 325 ELSE 400],
                 FederateAfterNBatches, e)

SpecShortPartition == InitShortPartition /\ [][NextNoFail]_vars

\* C7: with partitions of 400/400/400 batches and 50 batches per round the
\* rounds 1..8 of every epoch give every worker 50 batches and are
\* aggregated, round 9 gives every worker the empty assignment and trains
\* nobody, and the epoch's evaluation follows round 9 with 8 aggregated rounds.
C7_EightRoundsThenExhaustion ==
    /\ round <= 9
    /\ (InRound /\ round <= 8) =>
          /\ \A w \in Range(workerIds) : Len(batches[w]) = 50
          /\ aggRounds = round - 1
    /\ (InRound /\ round = 9) =>
          /\ \A w \in Range(workerIds) : Len(batches[w]) = 0
          /\ dispatched = {}
    /\ pc = "test" =>
          /\ round = 9
          /\ aggRounds = 8
          /\ ~data_for_all_workers
    /\ \A i \in DOMAIN evals :
          /\ evals[i].epoch = i
          /\ evals[i].round = 9
          /\ evals[i].version = 8 * i

\* C7 witness: the second epoch reaches its evaluation after 8 aggregated
\* rounds.
C7_Witness ==
    /\ pc = "test"
    /\ epoch = 2
    /\ aggRounds = 8
    /\ version = 16

\* C8: with partitions of 400/400/325 batches and 50 batches per round,
\* round 7 starts at counter 300 and gives the third worker its last 25
\* batches, round 8 gives the third worker nothing while the two others get
\* 50 batches each, and the epoch ends in round 8 after 7 aggregated rounds.
C8_StopsAtRoundEight ==
    /\ round <= 8
    /\ (InRound /\ round <= 6) =>
          \A w \in Range(workerIds) : Len(batches[w]) = 50
    /\ (InRound /\ round = 7) =>
          /\ counter = 300
          /\ batches["charlie"] = SubSeq(partition["charlie"], 301, 325)
          /\ Len(batches["alice"]) = 50
          /\ Len(batches["bob"]) = 50
          /\ aggRounds = 6
    /\ (InRound /\ round = 8) =>
          /\ Len(batches["charlie"]) = 0
          /\ batches["alice"] = SubSeq(partition["alice"], 351, 400)
          /\ batches["bob"] = SubSeq(partition["bob"], 351, 400)
          /\ aggRounds = 7
    /\ pc = "test" =>
          /\ round = 8
          /\ aggRounds = 7
          /\ ~data_for_all_workers

\* C8 witness: the epoch has ended in round 8, where the third worker had no
\* batches and the two others had 50.
C8_Witness ==
    /\ pc = "test"
    /\ round = 8
    /\ aggRounds = 7
    /\ Len(batches["charlie"]) = 0
    /\ Len(batches["alice"]) = 50

(* ----------------------- claims on the epoch loop --------------------- *)

\* the transitions of the TrainingDriver
DriverTransitions ==
    {<<"Idle", "EpochRunning">>, <<"EpochRunning", "RoundRunning">>,
     <<"RoundRunning", "RoundRunning">>, <<"RoundRunning", "EpochDone">>,
     <<"EpochDone", "EpochRunning">>, <<"EpochDone", "Finished">>}

\* C9: every step of the driver is one of the transitions Idle ->
\* EpochRunning -> RoundRunning -> (RoundRunning)* -> EpochDone ->
\* (EpochRunning | Finished); EpochDone is entered only on the exhaustion
\* signal; the step that leaves EpochDone performs the one evaluation of the
\* epoch, on the current GlobalModel; the run is Finished after exactly
\* epochCount epochs and evaluations, and nothing happens after that.
C9_DriverLifecycle ==
    [][/\ <<DriverState, DriverState'>> \in DriverTransitions
       /\ DriverState' = "EpochDone" =>
            /\ ~data_for_all_workers'
            /\ Len(evals') = epoch' - 1
       /\ DriverState = "EpochDone" =>
            /\ evals' = Append(evals, [epoch |-> epoch, model |-> lastAgg,
                                       version |-> version, round |-> round])
            /\ globalModel = lastAgg
            /\ Len(evals') = epoch
       /\ DriverState # "EpochDone" => evals' = evals
       /\ DriverState' = "EpochRunning" => epoch' = epoch + 1 /\ epoch' <= epochs
       /\ DriverState' = "Finished" =>
            /\ epoch' = epochs
            /\ Len(evals') = epochs
            /\ \A i \in 1..epochs : evals'[i].epoch = i
       /\ DriverState # "Finished"]_vars

\* C9 witness: a run of two epochs is Finished, with aggregated rounds in
\* both epochs.
C9_Witness ==
    /\ DriverState = "Finished"
    /\ epochs = 2
    /\ Len(evals) = 2
    /\ evals[1].version > 0
    /\ evals[2].version > evals[1].version

(* ------------------------ claims on federated_avg --------------------- *)

\* the parameter values drawn for the inputs of federated_avg: the integers
\* and halves up to MaxVal
AvgValues == {Norm(v, d) : v \in 0..MaxVal, d \in {1, 2}}

\* `model = utils.federated_avg(models)` on its own, for every non-empty
\* mapping of ParameterSets of one shape
InitAvg ==
    /\ \E W \in (SUBSET AllWorkers) \ {{}} :
         \E S \in (SUBSET ParamNames) \ {{}} :
           models \in [W -> [S -> AvgValues]]
    /\ workerIds = <<>>
    /\ partition = EmptyDict
    /\ nr_batches = 0
    /\ epochs = 1
    /\ pc = "avg"
    /\ epoch = 1
    /\ globalModel = InitialModel
    /\ model = InitialModel
    /\ loss_values = EmptyDict
    /\ cursor = EmptyDict
    /\ batches = EmptyDict
    /\ counter = 0
    /\ data_for_all_workers = TRUE
    /\ idx = 1
    /\ inflight = {}
    /\ error = NoError
    /\ round = 0
    /\ aggRounds = 0
    /\ version = 0
    /\ lastAgg = InitialModel
    /\ roundModel = InitialModel
    /\ dispatched = {}
    /\ origin = EmptyDict
    /\ failures = <<>>
    /\ delivered = EmptyDict
    /\ evals = <<>>

\* the call with its exception caught: the old model is kept and the driver
\* goes on
AvgApply_ErrorCaught ==
    /\ pc = "avg"
    /\ LET r == federated_avg(models)
       IN  model' = IF r.ok THEN r.value ELSE model
    /\ pc' = "avg_done"
    /\ UNCHANGED <<config, epoch, globalModel, models, loss_values, cursor,
                   batches, counter, data_for_all_workers, idx, inflight,
                   error, history>>

AvgApply ==
    /\ pc = "avg"
    /\ LET r == federated_avg(models)
       IN  IF r.ok
           THEN model' = r.value /\ pc' = "avg_done" /\ error' = error
           ELSE /\ model' = model
                /\ pc' = "error"
                /\ error' = [kind |-> r.kind, worker |-> "", round |-> 0,
                             epoch |-> 0]
    /\ UNCHANGED <<config, epoch, globalModel, models, loss_values, cursor,
                   batches, counter, data_for_all_workers, idx, inflight,
                   history>>

NextAvg == AvgApply

SpecAvg == InitAvg /\ [][NextAvg]_vars

\* twice the value of x, for x an integer or a half
Twice(x) == (2 * x[1]) \div x[2]

\* sum of twice the values of parameter p over the workers in S
RECURSIVE TwiceTotal(_, _, _)
TwiceTotal(ms, S, p) ==
    IF S = {} THEN 0
    ELSE LET w == CHOOSE x \in S : TRUE
         IN  Twice(ms[w][p]) + TwiceTotal(ms, S \ {w}, p)

\* C10: for a non-empty mapping of ParameterSets of one shape federated_avg
\* succeeds, its result has the parameter names of every input, and each
\* value num/den of the result is the unweighted mean of the inputs' values:
\* num * 2 * (number of workers) = den * (sum of twice the inputs' values),
\* in lowest terms.
C10_AverageIsMean ==
    /\ pc \in {"avg", "avg_done"}
    /\ pc = "avg_done" =>
         /\ \A w \in DOMAIN models : DOMAIN model = DOMAIN models[w]
         /\ \A p \in DOMAIN model :
              /\ model[p][2] > 0
              /\ GCD(model[p][1], model[p][2]) = 1
              /\ model[p][1] * 2 * Cardinality(DOMAIN models)
                   = model[p][2] * TwiceTotal(models, DOMAIN models, p)

\* C10 witness: the average of three workers' models with a mean that is not
\* an integer.
C10_Witness ==
    /\ pc = "avg_done"
    /\ Cardinality(DOMAIN models) = 3
    /\ DOMAIN model = ParamNames
    /\ model["weight"][2] = 3
    /\ \E a, b \in DOMAIN models : models[a]["weight"] # models[b]["weight"]

(* ------------------- degenerate worker lists -------------------------- *)

\* the run configurations with no worker or one worker
InitUpToOneWorker ==
    \E W \in {V \in SUBSET AllWorkers : Cardinality(V) <= 1} :
      \E ids \in Orderings(W) :
        \E sizes \in [W -> 0..MaxPart] :
          \E n \in 0..MaxN :
            \E e \in 1..MaxEpochs :
              InitWith(ids, sizes, n, e)

SpecUpToOneWorker == InitUpToOneWorker /\ [][Next]_vars

\* C11: with an empty worker list no assignment is empty, so the first round
\* goes to federated_avg with an empty mapping: the run never aggregates,
\* never starts a second round, never reaches an evaluation, and its only
\* way on from the end of the first for loop is the error
\* EmptyAggregationInput, with the model as it was.
C11_EmptyWorkerSetFails ==
    workerIds = <<>> =>
        /\ pc \in {"idle", "epoch", "while", "for", "error"}
        /\ round <= 1
        /\ round = 1 => pc \in {"for", "error"}
        /\ version = 0
        /\ models = EmptyDict
        /\ model = InitialModel
        /\ globalModel = InitialModel
        /\ pc = "for" => (data_for_all_workers /\ batches = EmptyDict)
        /\ pc = "error" =>
             error = [kind |-> "EmptyAggregationInput", worker |-> "",
                      round |-> 1, epoch |-> 1]

\* C11 witness: a run with an empty worker list has ended with
\* EmptyAggregationInput.
C11_Witness ==
    /\ workerIds = <<>>
    /\ pc = "error"
    /\ error.kind = "EmptyAggregationInput"
    /\ round = 1

\* `model = utils.federated_avg(models)` on its own, for every non-empty
\* mapping of ParameterSets, of one shape or not
InitAvgShapes ==
    /\ \E W \in (SUBSET AllWorkers) \ {{}} :
         models \in [W -> UNION {[S -> AvgValues] : S \in (SUBSET ParamNames) \ {{}}}]
    /\ workerIds = <<>>
    /\ partition = EmptyDict
    /\ nr_batches = 0
    /\ epochs = 1
    /\ pc = "avg"
    /\ epoch = 1
    /\ globalModel = InitialModel
    /\ model = InitialModel
    /\ loss_values = EmptyDict
    /\ cursor = EmptyDict
    /\ batches = EmptyDict
    /\ counter = 0
    /\ data_for_all_workers = TRUE
    /\ idx = 1
    /\ inflight = {}
    /\ error = NoError
    /\ round = 0
    /\ aggRounds = 0
    /\ version = 0
    /\ lastAgg = InitialModel
    /\ roundModel = InitialModel
    /\ dispatched = {}
    /\ origin = EmptyDict
    /\ failures = <<>>
    /\ delivered = EmptyDict
    /\ evals = <<>>

SpecAvgShapes == InitAvgShapes /\ [][NextAvg]_vars

\* two models of the mapping differ in their parameter names
NamesDisagree ==
    \E a, b \in DOMAIN models : DOMAIN models[a] # DOMAIN models[b]

\* C12: when the ParameterSets given to federated_avg disagree on their
\* parameter names the call fails with ShapeMismatch, the model is what it
\* was before the call, and the run has ended: no step of the driver is
\* possible after the error.
C12_ShapeMismatchAborts ==
    (pc # "avg" /\ NamesDisagree) =>
        /\ pc = "error"
        /\ error.kind = "ShapeMismatch"
        /\ model = InitialModel
        /\ globalModel = InitialModel
        /\ ~ENABLED Next
        /\ ~ENABLED NextAvg

\* C12 witness: the call has failed with ShapeMismatch on three models, one
\* of which lacks a parameter.
C12_Witness ==
    /\ pc = "error"
    /\ error.kind = "ShapeMismatch"
    /\ Cardinality(DOMAIN models) = 3
    /\ \E a, b \in DOMAIN models :
         DOMAIN models[a] = ParamNames /\ DOMAIN models[b] = {"weight"}

\* C13: with a single worker, federated_avg returns that worker's model
\* unchanged: the call on the one-entry mapping yields the entry, the model
\* after each aggregated round is the worker's locally trained
\* model, and so is the global model that train() returns.
C13_SingleWorkerIdentity ==
    Len(workerIds) = 1 =>
        LET w == workerIds[1]
        IN  /\ DOMAIN models \subseteq {w}
            /\ w \in DOMAIN models =>
                   (AvgCall.ok /\ AvgCall.value = models[w])
            /\ (pc = "while" /\ aggRounds > 0) =>
                   (model = models[w] /\ lastAgg = models[w])
            /\ (pc = "test" /\ aggRounds > 0) => globalModel = models[w]

\* C13 witness: the second aggregation of an epoch with one worker has
\* replaced the model by the worker's trained model.
C13_Witness ==
    /\ Len(workerIds) = 1
    /\ pc = "while"
    /\ aggRounds = 2
    /\ model = models[workerIds[1]]
    /\ model # InitialModel

\* the successive rwc.get_next_batches calls of one epoch on their own: the
\* iterators are fresh and nothing was delivered yet
InitCursor ==
    /\ \E W \in (SUBSET AllWorkers) \ {{}} :
         \E ids \in Orderings(W) :
           \E sizes \in [W -> 0..MaxPart] :
             /\ workerIds = ids
             /\ partition = [w \in W |-> MakePartition(w, sizes[w])]
             /\ cursor = [w \in W |-> 0]
             /\ batches = [w \in W |-> <<>>]
             /\ delivered = [w \in W |-> <<>>]
    /\ nr_batches \in 0..MaxN
    /\ epochs = 1
    /\ pc = "cursor"
    /\ epoch = 1
    /\ globalModel = InitialModel
    /\ model = InitialModel
    /\ models = EmptyDict
    /\ loss_values = EmptyDict
    /\ counter = 0
    /\ data_for_all_workers = TRUE
    /\ idx = 1
    /\ inflight = {}
    /\ error = NoError
    /\ round = 0
    /\ aggRounds = 0
    /\ version = 0
    /\ lastAgg = InitialModel
    /\ roundModel = InitialModel
    /\ dispatched = {}
    /\ origin = EmptyDict
    /\ failures = <<>>
    /\ evals = <<>>

\* calls explored per configuration: enough to exhaust the longest partition
\* one batch at a time and to call twice more
CallLimit == MaxPart + 2

\* the iterators are re-created before every call
CursorCall_Reiterates ==
    /\ pc = "cursor"
    /\ round < CallLimit
    /\ batches' = get_next_batches(FreshCursors, nr_batches)
    /\ cursor' = AdvanceCursors(FreshCursors, nr_batches)
    /\ delivered' = [w \in Range(workerIds) |-> delivered[w] \o batches'[w]]
    /\ round' = round + 1
    /\ UNCHANGED <<config, pc, epoch, globalModel, model, models, loss_values,
                   counter, data_for_all_workers, idx, inflight, error,
                   aggRounds, version, lastAgg, roundModel, dispatched, origin,
                   failures, evals>>

\* `batches = rwc.get_next_batches(federated_train_loader, nr_batches)`; round
\* counts the calls made
CursorCall ==
    /\ pc = "cursor"
    /\ round < CallLimit
    /\ batches' = get_next_batches(cursor, nr_batches)
    /\ cursor' = AdvanceCursors(cursor, nr_batches)
    /\ delivered' = [w \in Range(workerIds) |-> delivered[w] \o batches'[w]]
    /\ round' = round + 1
    /\ UNCHANGED <<config, pc, epoch, globalModel, model, models, loss_values,
                   counter, data_for_all_workers, idx, inflight, error,
                   aggRounds, version, lastAgg, roundModel, dispatched, origin,
                   failures, evals>>

NextCursor == CursorCall

SpecCursor == InitCursor /\ [][NextCursor]_vars

\* C14: after any number of successive get_next_batches calls, what a worker
\* was given in total is the beginning of its partition, in order, as long as
\* calls times count allows, hence the whole partition, each batch once, as
\* soon as the partition is exhausted; no call gives more than count batches;
\* a call made after exhaustion gives the empty list, and it can always be
\* made.
C14_CursorYieldsPartition ==
    pc = "cursor" =>
        /\ \A w \in Range(workerIds) :
             LET part == partition[w]
             IN  /\ delivered[w] =
                        SubSeq(part, 1, Min(round * nr_batches, Len(part)))
                 /\ round * nr_batches >= Len(part) => delivered[w] = part
                 /\ Len(batches[w]) <= nr_batches
                 /\ (round >= 1 /\ (round - 1) * nr_batches >= Len(part)) =>
                        batches[w] = <<>>
        /\ round < CallLimit => ENABLED CursorCall

\* C14 witness: a partition of three batches was given out in two calls of
\* two and one batches, and two further calls returned nothing.
C14_Witness ==
    /\ pc = "cursor"
    /\ nr_batches = 2
    /\ round = 4
    /\ \E w \in Range(workerIds) :
         /\ Len(partition[w]) = 3
         /\ delivered[w] = partition[w]
         /\ batches[w] = <<>>

\* train() is running: between its entry and its return or failure
InTrain == pc \in {"while", "for", "call"}

\* C15: every call of train() starts every worker at the beginning of its
\* partition: the first assignment of an epoch is the first nr_batches
\* batches of each partition, in the first epoch and in every later one, and
\* what was given out in the epoch is always the beginning of the partition;
\* so every epoch ends in the same round and has aggregated the same number
\* of rounds.
C15_FreshCursorsEachEpoch ==
    /\ (pc = "while" /\ round = 0) =>
           \A w \in Range(workerIds) :
               /\ cursor[w] = Min(nr_batches, Len(partition[w]))
               /\ batches[w] = SubSeq(partition[w], 1, cursor[w])
    /\ InTrain =>
           \A w \in Range(workerIds) :
               delivered[w] = SubSeq(partition[w], 1, cursor[w])
    /\ \A i \in DOMAIN evals :
           /\ evals[i].epoch = i
           /\ evals[i].round = evals[1].round
           /\ evals[i].version = i * (evals[1].round - 1)

\* C15 witness: the second epoch has ended after two aggregated rounds, like
\* the first, although the first had used up a partition.
C15_Witness ==
    /\ Len(evals) = 2
    /\ evals[1].round = 3
    /\ evals[2].round = 3
    /\ evals[2].version = 4
    /\ \E w \in Range(workerIds) : cursor[w] = Len(partition[w])

\* the workers whose training call of the current round has returned
ReturnedThisRound ==
    {w \in DOMAIN origin : origin[w].epoch = epoch /\ origin[w].round = round}

\* inside train() the model is the initial model until the first aggregation
\* and the output of the latest aggregation after it, outside train() so is
\* the driver's model; every call of a round is given that model
C16_SameStartVersion ==
    /\ version = 0 => lastAgg = InitialModel
    /\ InTrain => model = lastAgg
    /\ pc \in {"idle", "epoch", "test", "done"} => globalModel = lastAgg
    /\ pc \in {"for", "call"} =>
           /\ roundModel = model
           /\ \A c \in inflight : c.version = version
           /\ \A w \in ReturnedThisRound :
                  /\ origin[w].version = version
                  /\ models[w] = TrainedModel(lastAgg, batches[w])

\* the model of train() changes only when a round in which every worker had
\* data ends, to the output of federated_avg; the driver's model changes only
\* when train() returns, to that model
C16_OnlyAggregationChanges ==
    /\ model' # model =>
           /\ RoundComplete
           /\ data_for_all_workers
           /\ AvgCall.ok
           /\ model' = AvgCall.value
           /\ version' = version + 1
           /\ lastAgg' = model'
    /\ globalModel' # globalModel =>
           /\ RoundComplete
           /\ ~data_for_all_workers
           /\ pc' = "test"
           /\ globalModel' = lastAgg

\* C16: all workers trained in a round start from one model, the initial
\* model in the very first round and the output of the latest aggregation
\* afterwards, also across epochs; the model is replaced only by the output
\* of the aggregation at the end of a round that was not exhausted, never by
\* a worker's training or by the evaluation.
C16_GlobalModelCarry ==
    []C16_SameStartVersion /\ [][C16_OnlyAggregationChanges]_vars

\* C16 witness: in the first round of the second epoch two workers have
\* trained, both from the model that the last aggregation of the first
\* epoch produced.
C16_Witness ==
    /\ epoch = 2
    /\ pc = "for"
    /\ round = 1
    /\ version >= 1
    /\ Cardinality(ReturnedThisRound) >= 2
    /\ model = lastAgg
    /\ model # InitialModel

\* C17: a round in which every worker has at least one batch trains every
\* worker and is aggregated, not taken for exhausted, also when a worker has
\* fewer than nr_batches batches; the model after the aggregation is the sum
\* of all workers' trained models divided by the number of workers, whatever
\* the number of batches each trained on.
C17_PartialRoundEqualWeight ==
    LET W == Range(workerIds)
    IN  /\ (RoundComplete /\ W # {} /\ \A w \in W : Len(batches[w]) >= 1) =>
               /\ data_for_all_workers
               /\ ReturnedThisRound = W
               /\ ~ENABLED RoundExhausted
               /\ AvgCall.ok
               /\ \A p \in ParamNames :
                      AvgCall.value[p] =
                          RatDivInt(SumParam([w \in W |->
                                                 TrainedModel(model, batches[w])],
                                             W, p),
                                    Cardinality(W))
        /\ (pc = "while" /\ aggRounds > 0) =>
               /\ DOMAIN models = W
               /\ \A p \in ParamNames :
                      model[p] = RatDivInt(SumParam(models, W, p),
                                           Cardinality(W))

\* C17 witness: a round was aggregated in which one worker trained on one
\* batch and another on two.
C17_Witness ==
    /\ pc = "while"
    /\ aggRounds = 1
    /\ nr_batches = 2
    /\ model # InitialModel
    /\ \E a, b \in Range(workerIds) :
         Len(partition[a]) = 1 /\ Len(partition[b]) = 3

\* one round of train() on the workers taken in the order ids: each is
\* trained from gm on its assignment bs, then the models are averaged
RoundResultInOrder(ids, gm, bs) ==
    LET RECURSIVE Collect(_)
        Collect(i) ==
            IF i = 0 THEN EmptyDict
            ELSE DictSet(Collect(i - 1), ids[i],
                         train_on_batches(ids[i], bs[ids[i]], gm).model)
    IN  federated_avg(Collect(Len(ids)))

\* when a round is aggregated the new model is what the round gives from the
\* round's starting model and assignments with the workers in any order
C18_SameResultInAnyOrder ==
    version' # version =>
        \A ids \in Orderings(Range(workerIds)) :
            LET r == RoundResultInOrder(ids, roundModel, batches)
            IN  r.ok /\ model' = r.value

\* C18: the model a round produces does not depend on the order of the
\* workers: the run, which takes them in the order of its worker list, gets
\* the model that the same round gives from the same starting model and the
\* same assignments with the workers in every other order.
C18_OrderIndependent == [][C18_SameResultInAnyOrder]_vars

\* C18 witness: three workers, not in alphabetical order and with
\* assignments of different sizes, have been aggregated.
C18_Witness ==
    /\ pc = "while"
    /\ aggRounds = 1
    /\ model # InitialModel
    /\ workerIds = <<"charlie", "alice", "bob">>
    /\ nr_batches = 2
    /\ Len(partition["alice"]) = 1
    /\ Len(partition["bob"]) = 3

\* C19: the counter of train() is 0 when an epoch's first round starts and
\* nr_batches times the number of rounds aggregated so far in the epoch when
\* any round starts; it keeps that value while the round's workers are
\* trained, the round being the one after the aggregated ones.
C19_CounterCountsRounds ==
    /\ (pc = "while" /\ round = 0) => (counter = 0 /\ aggRounds = 0)
    /\ pc = "while" => (counter = nr_batches * aggRounds /\ round = aggRounds)
    /\ pc \in {"for", "call"} =>
           /\ round = aggRounds + 1
           /\ counter = nr_batches * (round - 1)

\* C19 witness: the second round of the second epoch is running with the
\* counter at nr_batches = 2.
C19_Witness ==
    /\ epoch = 2
    /\ pc = "call"
    /\ round = 2
    /\ nr_batches = 2
    /\ counter = 2

\* the size of the smallest partition
MinPartition ==
    CHOOSE k \in {Len(partition[w]) : w \in Range(workerIds)} :
        \A w \in Range(workerIds) : k <= Len(partition[w])

\* C20: when train() has returned, the epoch has aggregated as many rounds
\* as the smallest partition divided by nr_batches, rounded up, and the
\* round after these was the exhausted one; with an empty partition or with
\* nr_batches = 0 it has aggregated none and the model is the one
\* the epoch started from. Every epoch evaluated so far ended in that round.
C20_RoundsPerEpoch ==
    (pc = "test" /\ workerIds # <<>>) =>
        /\ nr_batches >= 1 =>
               aggRounds = (MinPartition + nr_batches - 1) \div nr_batches
        /\ round = aggRounds + 1
        /\ ~data_for_all_workers
        /\ version = epoch * aggRounds
        /\ (nr_batches = 0 \/ MinPartition = 0) =>
               /\ aggRounds = 0
               /\ version = 0
               /\ globalModel = InitialModel
        /\ \A i \in DOMAIN evals : evals[i].round = round

\* C20 witness: the smallest of several partitions has three batches and a
\* round has two: the second epoch aggregated two rounds and its third round
\* was the exhausted one.
C20_Witness ==
    /\ pc = "test"
    /\ nr_batches = 2
    /\ Len(workerIds) >= 2
    /\ MinPartition = 3
    /\ aggRounds = 2
    /\ round = 3
    /\ epoch = 2

\* train() is about to call utils.federated_avg(models): the for loop is
\* over and the flag is up
AvgInvoked == RoundComplete /\ data_for_all_workers

\* C21: whenever federated_avg is about to be called, `models` has one entry
\* for each worker and no other, and every entry was stored in the current
\* round of the current epoch by a call that was given the current model and
\* the worker's current assignment; an entry of an earlier round, or of a
\* round that turned out exhausted, is never among them.
C21_AggregationInputFresh ==
    AvgInvoked =>
        LET W == Range(workerIds)
        IN  /\ DOMAIN models = W
            /\ DOMAIN origin = W
            /\ dispatched = W
            /\ \A w \in W :
                   /\ origin[w] = [epoch |-> epoch, round |-> round,
                                   version |-> version]
                   /\ Len(batches[w]) >= 1
                   /\ models[w] = train_on_batches(w, batches[w], model).model
                   /\ model = roundModel

\* C21 witness: the second round of the second epoch is about to be
\* averaged; `models` held the first round's entries of two workers when the
\* round began and now holds those of the second round.
C21_Witness ==
    /\ AvgInvoked
    /\ epoch = 2
    /\ round = 2
    /\ Cardinality(DOMAIN models) >= 2
    /\ \A w \in DOMAIN models : origin[w].round = 2 /\ origin[w].version = version

(* ---------------------------- termination ----------------------------- *)

\* the run configurations with at least one worker and at least one batch
\* per round
InitPositiveRound ==
    \E W \in (SUBSET AllWorkers) \ {{}} :
      \E ids \in Orderings(W) :
        \E sizes \in [W -> 0..MaxPart] :
          \E n \in 1..MaxN :
            \E e \in 1..MaxEpochs :
              InitWith(ids, sizes, n, e)

\* the notebook is one sequential program: whenever it has a next statement
\* it executes it, and a blocking rwc.train_on_batches call ends, by
\* returning or by raising
SpecTerminates == InitPositiveRound /\ [][Next]_vars /\ WF_vars(Next)

\* train() is left only by `break` after a pass that found an empty list,
\* or by an exception
C22_OnlyExhaustionExits ==
    (InTrain /\ ~InTrain') =>
        \/ RoundComplete /\ ~data_for_all_workers /\ pc' = "test"
        \/ pc' = "error" /\ error' # NoError

\* C22: with at least one worker, finite partitions and nr_batches >= 1,
\* every call of train() ends, by the exhaustion signal unless a training
\* call raised, and has no other way out of its loop; and unless a call
\* raised, the run ends after exactly `epochs` evaluations.
C22_RunTerminates ==
    /\ [][C22_OnlyExhaustionExits]_vars
    /\ (pc = "epoch") ~>
           \/ pc = "test" /\ ~data_for_all_workers
           \/ pc = "error"
    /\ \/ <>(pc = "error")
       \/ <>[](pc = "done" /\ Len(evals) = epochs /\ epoch = epochs)

\* C22 witness: a run of two epochs with aggregated rounds in both has
\* ended after two evaluations.
C22_Witness ==
    /\ pc = "done"
    /\ epochs = 2
    /\ Len(evals) = 2
    /\ nr_batches >= 1
    /\ evals[1].round >= 3
    /\ failures = <<>>

====
